---------------------------- MODULE Spec2Model ----------------------------
(***************************************************************************)
(* A model of the Bundestag plenary-protocol MCP server: the process-wide  *)
(* protocol cache with its tool call and resource handlers (server.py) and *)
(* the XML entity extractors behind them (server_resources.py).            *)
(*                                                                         *)
(* Encoding of Python values:                                              *)
(*   - None is the reserved string "None"; no attribute value, id or name  *)
(*     of a modelled document is that string.                              *)
(*   - str values that are only compared or copied (ids, names, attribute  *)
(*     values, urls) are TLA+ strings.                                     *)
(*   - element text that the code strips, joins, lower-cases or searches   *)
(*     is a sequence of one-character strings; an element without text     *)
(*     (text is None or "") is the empty sequence, as the code only tests  *)
(*     the truthiness of such text.                                        *)
(*   - an optional child element is a sequence of length 0 or 1.           *)
(*   - dicts are functions from key strings; lists are sequences.          *)
(*   - bytes payloads are strings; ET.fromstring is a finite table.        *)
(***************************************************************************)
EXTENDS Integers, Sequences, FiniteSets, TLC

None == "None"

\* Python truthiness of a str/bytes/None value (`if x:` / `not x`).
Truthy(x) == x # None /\ x # ""

(***************************************************************************)
(* str operations used by the extractors and the search handler            *)
(***************************************************************************)

\* Characters str.strip() removes.
Whitespace == {" ", "\n"}

RECURSIVE lstrip(_)
lstrip(s) ==
    IF s = <<>> THEN <<>>
    ELSE IF Head(s) \in Whitespace THEN lstrip(Tail(s)) ELSE s

RECURSIVE rstrip(_)
rstrip(s) ==
    IF s = <<>> THEN <<>>
    ELSE IF s[Len(s)] \in Whitespace THEN rstrip(SubSeq(s, 1, Len(s) - 1)) ELSE s

\* str.strip()
strip(s) == rstrip(lstrip(s))

\* "\n".join(parts)
RECURSIVE join(_)
join(parts) ==
    IF parts = <<>> THEN <<>>
    ELSE IF Len(parts) = 1 THEN parts[1]
    ELSE parts[1] \o <<"\n">> \o join(Tail(parts))

\* str.lower() on one character of the modelled alphabet.
LowerChar(c) ==
    CASE c = "A" -> "a"
      [] c = "B" -> "b"
      [] OTHER -> c

\* str.lower()
lower(s) == [i \in 1..Len(s) |-> LowerChar(s[i])]

\* s[start:end] with 0 <= start <= end <= len(s) (Python slice, 0-based).
Slice(s, start, end) == SubSeq(s, start + 1, end)

(***************************************************************************)
(* The parsed document (xml.etree.ElementTree): what the extractors read.  *)
(*   root.attrib      : function from the attribute names present          *)
(*   root.reden       : the <rede> elements in document order              *)
(*   root.rednerliste : the <redner> elements outside any <rede>, which    *)
(*                      follow the speeches in document order              *)
(* rede   = [id, ps, kommentare]; p = [klasse, text, redner]               *)
(* redner = [id, name]; name = [vorname, nachname, titel, fraktion, rolle] *)
(***************************************************************************)

\* Element.get(key): the attribute value, None when absent.
get(attrib, key) == IF key \in DOMAIN attrib THEN attrib[key] ELSE None

\* dict.get(key, default)
dict_get(d, key, default) == IF key \in DOMAIN d THEN d[key] ELSE default

\* dict.update(other): other's keys overwrite.
dict_update(d, other) ==
    [k \in DOMAIN d \cup DOMAIN other |-> IF k \in DOMAIN other THEN other[k] ELSE d[k]]

\* The empty dict {}.
EmptyDict == <<>>

\* `x.text if x is not None and x.text else ""` for a child given as its text
\* (None: the child is absent or has no text).
TextOrEmpty(t) == IF Truthy(t) THEN t ELSE ""


(***************************************************************************)
(* class BundestagResource                                                 *)
(***************************************************************************)

\* BundestagResource._parse_metadata: the six instance attributes.
parse_metadata(root) ==
    [wahlperiode   |-> get(root.attrib, "wahlperiode"),
     sitzung_nr    |-> get(root.attrib, "sitzung-nr"),
     sitzung_datum |-> get(root.attrib, "sitzung-datum"),
     sitzung_ort   |-> get(root.attrib, "sitzung-ort"),
     sitzung_start |-> get(root.attrib, "sitzung-start-uhrzeit"),
     sitzung_ende  |-> get(root.attrib, "sitzung-ende-uhrzeit")]

\* BundestagResource.to_dict
BundestagResource_to_dict(self) ==
    [wahlperiode   |-> self.wahlperiode,
     sitzung_nr    |-> self.sitzung_nr,
     sitzung_datum |-> self.sitzung_datum,
     sitzung_ort   |-> self.sitzung_ort,
     sitzung_start |-> self.sitzung_start,
     sitzung_ende  |-> self.sitzung_ende]

(***************************************************************************)
(* class SessionMetadata                                                   *)
(***************************************************************************)

\* SessionMetadata._parse_metadata: super()'s attributes and four more.
SessionMetadata_parse_metadata(root) ==
    parse_metadata(root) @@
    [herausgeber            |-> get(root.attrib, "herausgeber"),
     issn                   |-> get(root.attrib, "issn"),
     sitzung_naechste_datum |-> get(root.attrib, "sitzung-naechste-datum"),
     start_seitennr         |-> get(root.attrib, "start-seitennr")]

\* SessionMetadata(xml_data), after ET.fromstring
SessionMetadata_init(root) ==
    [cls |-> "SessionMetadata", root |-> root] @@ SessionMetadata_parse_metadata(root)

\* SessionMetadata.to_dict
SessionMetadata_to_dict(self) ==
    dict_update(BundestagResource_to_dict(self),
                [herausgeber            |-> self.herausgeber,
                 issn                   |-> self.issn,
                 sitzung_naechste_datum |-> self.sitzung_naechste_datum,
                 start_seitennr         |-> self.start_seitennr])

(***************************************************************************)
(* class SpeakerList                                                       *)
(***************************************************************************)

\* The <redner> children of the paragraphs of one <rede>, in document order.
RECURSIVE RednerOfPs(_)
RednerOfPs(ps) ==
    IF ps = <<>> THEN <<>> ELSE Head(ps).redner \o RednerOfPs(Tail(ps))

RECURSIVE RednerOfReden(_)
RednerOfReden(reden) ==
    IF reden = <<>> THEN <<>>
    ELSE RednerOfPs(Head(reden).ps) \o RednerOfReden(Tail(reden))

\* root.findall(".//redner"): every <redner> element, in document order.
findall_redner(root) == RednerOfReden(root.reden) \o root.rednerliste

\* The speaker_info / redner_info dict built from a <redner> with a <name> child.
speaker_info(redner) ==
    LET name_elem == redner.name[1] IN
    [id       |-> redner.id,
     vorname  |-> TextOrEmpty(name_elem.vorname),
     nachname |-> TextOrEmpty(name_elem.nachname),
     titel    |-> TextOrEmpty(name_elem.titel),
     fraktion |-> TextOrEmpty(name_elem.fraktion),
     rolle    |-> TextOrEmpty(name_elem.rolle)]

\* The loop of SpeakerList._extract_speakers from element i on.
RECURSIVE extract_speakers_loop(_, _, _)
extract_speakers_loop(redner_elems, i, speakers) ==
    IF i > Len(redner_elems) THEN speakers
    ELSE LET redner == redner_elems[i] IN
         IF \E k \in 1..Len(speakers) : speakers[k].id = redner.id
         THEN extract_speakers_loop(redner_elems, i + 1, speakers)
         ELSE IF redner.name = <<>>
         THEN extract_speakers_loop(redner_elems, i + 1, speakers)
         ELSE extract_speakers_loop(redner_elems, i + 1,
                                    Append(speakers, speaker_info(redner)))

\* SpeakerList._extract_speakers without the duplicate check.
RECURSIVE extract_speakers_no_dedup_loop(_, _, _)
extract_speakers_no_dedup_loop(redner_elems, i, speakers) ==
    IF i > Len(redner_elems) THEN speakers
    ELSE IF redner_elems[i].name = <<>>
         THEN extract_speakers_no_dedup_loop(redner_elems, i + 1, speakers)
         ELSE extract_speakers_no_dedup_loop(redner_elems, i + 1,
                                             Append(speakers, speaker_info(redner_elems[i])))

extract_speakers_no_dedup(root) ==
    extract_speakers_no_dedup_loop(findall_redner(root), 1, <<>>)

\* SpeakerList._extract_speakers
extract_speakers(root) == extract_speakers_loop(findall_redner(root), 1, <<>>)

\* SpeakerList(xml_data), after ET.fromstring
SpeakerList_init(root) ==
    [cls |-> "SpeakerList", root |-> root, speakers |-> extract_speakers(root)]
    @@ parse_metadata(root)

\* SpeakerList.to_dict
SpeakerList_to_dict(self) ==
    BundestagResource_to_dict(self) @@ [redner |-> self.speakers]

(***************************************************************************)
(* class Speech                                                            *)
(***************************************************************************)

\* rede.find("./p[@klasse='redner']/redner"): the first such element, if any.
find_redner(rede) ==
    LET hits == {i \in 1..Len(rede.ps) :
                   rede.ps[i].klasse = "redner" /\ rede.ps[i].redner # <<>>}
    IN IF hits = {} THEN <<>>
       ELSE rede.ps[CHOOSE i \in hits : \A j \in hits : i <= j].redner

\* redner_info of one <rede>: {} without a <redner> or without its <name>.
redner_info(rede) ==
    LET redner_elem == find_redner(rede) IN
    IF redner_elem = <<>> THEN EmptyDict
    ELSE IF redner_elem[1].name = <<>> THEN EmptyDict
    ELSE speaker_info(redner_elem[1])

\* speech_content: the stripped text of every <p> that is not the speaker
\* paragraph and has text.
RECURSIVE speech_content(_)
speech_content(ps) ==
    IF ps = <<>> THEN <<>>
    ELSE IF Head(ps).klasse # "redner" /\ Head(ps).text # <<>>
         THEN <<strip(Head(ps).text)>> \o speech_content(Tail(ps))
         ELSE speech_content(Tail(ps))

\* kommentare: the stripped text of every <kommentar> with text.
RECURSIVE kommentar_texts(_)
kommentar_texts(ks) ==
    IF ks = <<>> THEN <<>>
    ELSE IF Head(ks) # <<>>
         THEN <<strip(Head(ks))>> \o kommentar_texts(Tail(ks))
         ELSE kommentar_texts(Tail(ks))

\* The dict appended for one <rede>.
speech_dict(rede) ==
    [id         |-> rede.id,
     redner     |-> redner_info(rede),
     inhalt     |-> join(speech_content(rede.ps)),
     kommentare |-> kommentar_texts(rede.kommentare)]

\* The loop of Speech._extract_speeches from element i on.  `scanned` counts the
\* <rede> elements the loop has visited when it ends (by exhaustion or break).
RECURSIVE extract_speeches_loop(_, _, _, _)
extract_speeches_loop(rede_elems, i, specific_id, speeches) ==
    IF i > Len(rede_elems) THEN [speeches |-> speeches, scanned |-> Len(rede_elems)]
    ELSE LET rede == rede_elems[i] IN
         IF Truthy(specific_id) /\ rede.id # specific_id
         THEN extract_speeches_loop(rede_elems, i + 1, specific_id, speeches)
         ELSE IF Truthy(specific_id) /\ rede.id = specific_id
         THEN [speeches |-> Append(speeches, speech_dict(rede)), scanned |-> i]
         ELSE extract_speeches_loop(rede_elems, i + 1, specific_id,
                                    Append(speeches, speech_dict(rede)))

\* Speech._extract_speeches without the `break` after the requested speech.
RECURSIVE extract_speeches_no_break_loop(_, _, _, _)
extract_speeches_no_break_loop(rede_elems, i, specific_id, speeches) ==
    IF i > Len(rede_elems) THEN [speeches |-> speeches, scanned |-> Len(rede_elems)]
    ELSE IF Truthy(specific_id) /\ rede_elems[i].id # specific_id
         THEN extract_speeches_no_break_loop(rede_elems, i + 1, specific_id, speeches)
         ELSE extract_speeches_no_break_loop(rede_elems, i + 1, specific_id,
                                             Append(speeches, speech_dict(rede_elems[i])))

extract_speeches_no_break(root, specific_id) ==
    extract_speeches_no_break_loop(root.reden, 1, specific_id, <<>>)

\* Speech._extract_speeches
extract_speeches(root, specific_id) ==
    extract_speeches_loop(root.reden, 1, specific_id, <<>>)

\* Speech(xml_data, speech_id), after ET.fromstring
Speech_init(root, speech_id) ==
    [cls |-> "Speech", root |-> root,
     speeches |-> extract_speeches(root, speech_id).speeches]
    @@ parse_metadata(root)

\* Speech.to_dict
Speech_to_dict(self) ==
    IF Len(self.speeches) = 1
    THEN BundestagResource_to_dict(self) @@ [rede |-> self.speeches[1]]
    ELSE BundestagResource_to_dict(self) @@ [reden |-> self.speeches]

(***************************************************************************)
(* class AgendaItem                                                        *)
(*   root.tops : the <tagesordnungspunkt> elements in document order, each *)
(*               [top_id, ps] with ps its descendant <p> elements          *)
(***************************************************************************)

\* top.find(".//p[@klasse='T_fett']"): the index of the first such <p>, 0 if none.
find_titel(top) ==
    LET hits == {i \in 1..Len(top.ps) : top.ps[i].klasse = "T_fett"}
    IN IF hits = {} THEN 0 ELSE CHOOSE i \in hits : \A j \in hits : i <= j

\* description: the stripped text of every <p> with text other than the title.
RECURSIVE agenda_description(_, _, _)
agenda_description(ps, i, titel_idx) ==
    IF i > Len(ps) THEN <<>>
    ELSE IF ps[i].text # <<>> /\ i # titel_idx
         THEN <<strip(ps[i].text)>> \o agenda_description(ps, i + 1, titel_idx)
         ELSE agenda_description(ps, i + 1, titel_idx)

\* The dict appended for one <tagesordnungspunkt>.
agenda_item(top) ==
    LET titel_idx == find_titel(top) IN
    [id           |-> top.top_id,
     titel        |-> IF titel_idx # 0 /\ top.ps[titel_idx].text # <<>>
                      THEN strip(top.ps[titel_idx].text) ELSE <<>>,
     beschreibung |-> join(agenda_description(top.ps, 1, titel_idx))]

\* AgendaItem._extract_agenda_items
extract_agenda_items(root) == [i \in 1..Len(root.tops) |-> agenda_item(root.tops[i])]

\* AgendaItem(xml_data), after ET.fromstring
AgendaItem_init(root) ==
    [cls |-> "AgendaItem", root |-> root, agenda_items |-> extract_agenda_items(root)]
    @@ parse_metadata(root)

\* AgendaItem.to_dict without the fields of super().to_dict().
AgendaItem_to_dict_items_only(self) == [tagesordnungspunkte |-> self.agenda_items]

\* AgendaItem.to_dict
AgendaItem_to_dict(self) ==
    BundestagResource_to_dict(self) @@ [tagesordnungspunkte |-> self.agenda_items]

(***************************************************************************)
(* classes AttachmentList and TableOfContents                              *)
(*   root.inhaltsverzeichnis : optional [titel, eintraege, bloecke]        *)
(*   block   = [titel, eintraege]                                          *)
(*   eintrag = [inhalt, a] with a an optional [seite, seitenbereich]       *)
(***************************************************************************)

Anlage == <<"A", "n", "l", "a", "g", "e">>

\* str.startswith(prefix)
startswith(s, prefix) == Len(s) >= Len(prefix) /\ SubSeq(s, 1, Len(prefix)) = prefix

\* root.findall(".//ivz-block")
findall_ivz_block(root) ==
    IF root.inhaltsverzeichnis = <<>> THEN <<>> ELSE root.inhaltsverzeichnis[1].bloecke

\* The stripped content text of every <ivz-eintrag> that has some.
RECURSIVE eintrag_texts(_)
eintrag_texts(es) ==
    IF es = <<>> THEN <<>>
    ELSE IF Head(es).inhalt # <<>>
         THEN <<strip(Head(es).inhalt)>> \o eintrag_texts(Tail(es))
         ELSE eintrag_texts(Tail(es))

\* AttachmentList._extract_attachments over the given blocks.
RECURSIVE extract_attachments_loop(_)
extract_attachments_loop(blocks) ==
    IF blocks = <<>> THEN <<>>
    ELSE IF ~startswith(Head(blocks).titel, Anlage)
         THEN extract_attachments_loop(Tail(blocks))
         ELSE <<[titel     |-> strip(Head(blocks).titel),
                 eintraege |-> eintrag_texts(Head(blocks).eintraege)]>>
              \o extract_attachments_loop(Tail(blocks))

\* AttachmentList(xml_data), after ET.fromstring
AttachmentList_init(root) ==
    [cls |-> "AttachmentList", root |-> root,
     attachments |-> extract_attachments_loop(findall_ivz_block(root))]
    @@ parse_metadata(root)

\* AttachmentList.to_dict
AttachmentList_to_dict(self) ==
    BundestagResource_to_dict(self) @@ [anlagen |-> self.attachments]

\* TableOfContents._extract_page_reference
extract_page_reference(eintrag) ==
    IF eintrag.a = <<>> THEN <<>>
    ELSE (IF eintrag.a[1].seite # <<>> THEN strip(eintrag.a[1].seite) ELSE <<>>)
         \o (IF eintrag.a[1].seitenbereich # <<>>
             THEN strip(eintrag.a[1].seitenbereich) ELSE <<>>)

\* The {"inhalt", "seite"} dicts of the <ivz-eintrag> elements with content text.
RECURSIVE toc_entries(_)
toc_entries(es) ==
    IF es = <<>> THEN <<>>
    ELSE IF Head(es).inhalt # <<>>
         THEN <<[inhalt |-> strip(Head(es).inhalt),
                 seite  |-> extract_page_reference(Head(es))]>> \o toc_entries(Tail(es))
         ELSE toc_entries(Tail(es))

\* TableOfContents._extract_toc: without a table of contents the dict has no
\* "bloecke" key.
extract_toc(root) ==
    IF root.inhaltsverzeichnis = <<>> THEN [titel |-> <<>>, eintraege |-> <<>>]
    ELSE LET ivz == root.inhaltsverzeichnis[1] IN
         [titel     |-> strip(ivz.titel),
          eintraege |-> toc_entries(ivz.eintraege),
          bloecke   |-> [i \in 1..Len(ivz.bloecke) |->
                           [titel     |-> strip(ivz.bloecke[i].titel),
                            eintraege |-> toc_entries(ivz.bloecke[i].eintraege)]]]

\* TableOfContents(xml_data), after ET.fromstring
TableOfContents_init(root) ==
    [cls |-> "TableOfContents", root |-> root, toc |-> extract_toc(root)]
    @@ parse_metadata(root)

\* TableOfContents.to_dict
TableOfContents_to_dict(self) == dict_update(BundestagResource_to_dict(self), self.toc)

(***************************************************************************)
(* class FullProtocol                                                      *)
(***************************************************************************)

\* ET.tostring writes an attribute value with its markup characters replaced by
\* entity references (_escape_attrib); on the attribute values of the modelled
\* documents only "&" is affected.
escape_attrib(v) ==
    CASE v = "Bundestag & Bundesrat" -> "Bundestag &amp; Bundesrat"
      [] v = "0722 &amp; 7980"       -> "0722 &amp;amp; 7980"
      [] OTHER -> v

\* A parser that leaves the entity references of an attribute value in place.
no_unescape_attrib(v) == v

\* The parser resolves the entity references of an attribute value.
unescape_attrib(v) ==
    CASE v = "Bundestag &amp; Bundesrat" -> "Bundestag & Bundesrat"
      [] v = "0722 &amp;amp; 7980"       -> "0722 &amp; 7980"
      [] OTHER -> v

\* ET.tostring(root): the serialised tree.  The text of the modelled elements
\* has no markup character and is written as it is.
tostring(root) ==
    [root EXCEPT !.attrib = [a \in DOMAIN root.attrib |-> escape_attrib(root.attrib[a])]]

\* ET.fromstring on a serialised tree.
fromstring_tree(xml) ==
    [xml EXCEPT !.attrib = [a \in DOMAIN xml.attrib |-> unescape_attrib(xml.attrib[a])]]

\* ET.fromstring(ET.tostring(root)) in the constructors FullProtocol.to_dict calls.
reparse(root) == fromstring_tree(tostring(root))

\* FullProtocol(xml_data), after ET.fromstring
FullProtocol_init(root) == [cls |-> "FullProtocol", root |-> root] @@ parse_metadata(root)

\* FullProtocol.to_dict
FullProtocol_to_dict(self) ==
    LET data     == BundestagResource_to_dict(self)
        metadata == SessionMetadata_to_dict(SessionMetadata_init(reparse(self.root)))
        data1    == dict_update(data, [k \in DOMAIN metadata \ DOMAIN data |-> metadata[k]])
        toc      == TableOfContents_to_dict(TableOfContents_init(reparse(self.root)))
        agenda   == AgendaItem_to_dict(AgendaItem_init(reparse(self.root)))
        speakers == SpeakerList_to_dict(SpeakerList_init(reparse(self.root)))
        attachments == AttachmentList_to_dict(AttachmentList_init(reparse(self.root)))
    IN dict_update(data1,
         [inhaltsverzeichnis  |-> [titel     |-> dict_get(toc, "titel", <<>>),
                                   eintraege |-> dict_get(toc, "eintraege", <<>>),
                                   bloecke   |-> dict_get(toc, "bloecke", <<>>)],
          tagesordnungspunkte |-> dict_get(agenda, "tagesordnungspunkte", <<>>),
          redner              |-> dict_get(speakers, "redner", <<>>),
          anlagen             |-> dict_get(attachments, "anlagen", <<>>)])

(***************************************************************************)
(* ResourceType, create_resource, to_json                                  *)
(***************************************************************************)

\* class ResourceType(Enum)
ResourceType ==
    {"metadata", "agendaitem", "speakerlist", "speech", "attachmentlist", "toc",
     "fullprotocol"}

\* The constructor create_resource dispatches to, on a parsed root.
construct(resource_type, root, speech_id) ==
    CASE resource_type = "metadata"       -> SessionMetadata_init(root)
      [] resource_type = "agendaitem"     -> AgendaItem_init(root)
      [] resource_type = "speakerlist"    -> SpeakerList_init(root)
      [] resource_type = "speech"         -> Speech_init(root, speech_id)
      [] resource_type = "attachmentlist" -> AttachmentList_init(root)
      [] resource_type = "toc"            -> TableOfContents_init(root)
      [] resource_type = "fullprotocol"   -> FullProtocol_init(root)

\* self.to_dict(), by the class of self.
to_dict(self) ==
    CASE self.cls = "SessionMetadata" -> SessionMetadata_to_dict(self)
      [] self.cls = "AgendaItem"      -> AgendaItem_to_dict(self)
      [] self.cls = "SpeakerList"     -> SpeakerList_to_dict(self)
      [] self.cls = "Speech"          -> Speech_to_dict(self)
      [] self.cls = "AttachmentList"  -> AttachmentList_to_dict(self)
      [] self.cls = "TableOfContents" -> TableOfContents_to_dict(self)
      [] self.cls = "FullProtocol"    -> FullProtocol_to_dict(self)

\* json.dumps(d, ensure_ascii=False, indent=2): the JSON text of d, kept as the
\* tagged value it denotes.
json_dumps(d) == <<"json", d>>

\* BundestagResource.to_json
to_json(self) == json_dumps(to_dict(self))

(***************************************************************************)
(* ET.fromstring on the byte payloads the remote can deliver                *)
(***************************************************************************)

Name(vorname, nachname, fraktion) ==
    [vorname |-> vorname, nachname |-> nachname, titel |-> None,
     fraktion |-> fraktion, rolle |-> None]

Redner(id, name) == [id |-> id, name |-> name]

\* <p klasse="redner"><redner .../></p>
RednerP(redner) == [klasse |-> "redner", text |-> <<>>, redner |-> <<redner>>]

\* <p klasse=...>text</p>
TextP(klasse, text) == [klasse |-> klasse, text |-> text, redner |-> <<>>]

Rede(id, ps, kommentare) == [id |-> id, ps |-> ps, kommentare |-> kommentare]

Root(attrib, reden, rednerliste, tops, inhaltsverzeichnis) ==
    [attrib |-> attrib, reden |-> reden, rednerliste |-> rednerliste,
     tops |-> tops, inhaltsverzeichnis |-> inhaltsverzeichnis]

\* The ten session attributes the extractors read from the root element.
AttrNames ==
    {"wahlperiode", "sitzung-nr", "sitzung-datum", "sitzung-ort",
     "sitzung-start-uhrzeit", "sitzung-ende-uhrzeit", "herausgeber", "issn",
     "sitzung-naechste-datum", "start-seitennr"}

RednerMueller == Redner("11", <<Name("Eva", "Mueller", "SPD")>>)
RednerSchmidt == Redner("22", <<Name("Max", "Schmidt", "CDU")>>)

\* A session with every attribute, two speeches, a table of contents with an
\* attachment block, and one agenda item.
DocA ==
    Root([a \in AttrNames |-> "v"],
         <<Rede("ID1", <<RednerP(RednerMueller), TextP("J", <<" ", "A", "b", "a", " ">>),
                         TextP("O", <<"a", "B">>)>>, <<<<"(", "B", ")">>>>),
           Rede("ID2", <<RednerP(RednerSchmidt), TextP("J", <<"b", "b">>)>>, <<>>)>>,
         <<RednerMueller, RednerSchmidt>>,
         <<[top_id |-> "T1", ps |-> <<TextP("T_fett", <<"A", " ">>), TextP("J", <<"b">>)>>]>>,
         <<[titel |-> <<"I">>,
            eintraege |-> <<[inhalt |-> <<"a">>,
                             a |-> <<[seite |-> <<"1">>, seitenbereich |-> <<" ", "B">>]>>]>>,
            bloecke |-> <<[titel |-> Anlage \o <<" ", "1">>,
                           eintraege |-> <<[inhalt |-> <<"b", " ">>, a |-> <<>>]>>]>>]>>)

\* A session without attributes, with a single speech and nothing else.
DocB ==
    Root(<<>>,
         <<Rede("ID1", <<RednerP(RednerSchmidt), TextP("J", <<"a", "a">>)>>, <<>>)>>,
         <<>>, <<>>, <<>>)

\* The payloads that parse, with their trees.
DocTable == ("xmlA" :> DocA) @@ ("xmlB" :> DocB)

\* A payload that is not well-formed XML.
Malformed == "xmlBad"

\* The bodies the remote document fetch can deliver; "" is an empty body.
RemoteBodies == DOMAIN DocTable \cup {Malformed, ""}

\* ET.fromstring(xml_data) in BundestagResource.__init__: the exception it
\* raises (None when it parses).
fromstring_raises(xml_data) ==
    IF xml_data = None THEN "TypeError"
    ELSE IF xml_data \in DOMAIN DocTable THEN None
    ELSE "ParseError"

\* A returned value / a raised exception.
Return(v) == [raised |-> None, value |-> v]
Raise(e) == [raised |-> e, value |-> <<>>]

\* create_resource with a silent default: a tag outside the enumeration is
\* served as METADATA.
create_resource_default(resource_type, xml_data, speech_id) ==
    IF fromstring_raises(xml_data) # None THEN Raise(fromstring_raises(xml_data))
    ELSE Return(construct(IF resource_type \in ResourceType THEN resource_type
                          ELSE "metadata",
                          DocTable[xml_data], speech_id))

\* create_resource on a lenient parser: a payload that does not parse yields the
\* entity of an empty root.
create_resource_partial(resource_type, xml_data, speech_id) ==
    IF resource_type \notin ResourceType THEN Raise("ValueError")
    ELSE Return(construct(resource_type,
                          IF xml_data \in DOMAIN DocTable THEN DocTable[xml_data]
                          ELSE Root(<<>>, <<>>, <<>>, <<>>, <<>>),
                          speech_id))

\* create_resource(resource_type, xml_data, speech_id=...)
create_resource(resource_type, xml_data, speech_id) ==
    IF resource_type \notin ResourceType THEN Raise("ValueError")
    ELSE IF fromstring_raises(xml_data) # None THEN Raise(fromstring_raises(xml_data))
    ELSE Return(construct(resource_type, DocTable[xml_data], speech_id))

(***************************************************************************)
(* server.py: the document locator                                         *)
(***************************************************************************)

\* The loop of get_last_protocol_xml_url without its `break`: the xml_url of the
\* last document that has one.
RECURSIVE first_xml_url_no_break(_)
first_xml_url_no_break(documents) ==
    IF documents = <<>> THEN Return(None)
    ELSE IF first_xml_url_no_break(Tail(documents)).value # None
         THEN first_xml_url_no_break(Tail(documents))
    ELSE IF "xml_url" \in DOMAIN Head(documents).fundstelle
         THEN Return(Head(documents).fundstelle.xml_url)
    ELSE Return(None)

\* get_last_protocol_xml_url on the locator's answer `results` (None: the query
\* failed): the xml_url of the first document that has one.
RECURSIVE first_xml_url(_)
first_xml_url(documents) ==
    IF documents = <<>> THEN Return(None)
    ELSE IF "fundstelle" \notin DOMAIN Head(documents) THEN Raise("KeyError")
    ELSE IF "xml_url" \notin DOMAIN Head(documents).fundstelle
         THEN first_xml_url(Tail(documents))
    ELSE IF "datum" \notin DOMAIN Head(documents).fundstelle THEN Raise("KeyError")
    ELSE Return(Head(documents).fundstelle.xml_url)

get_last_protocol_xml_url(results) ==
    IF results = <<>> THEN Return(None)
    ELSE IF "documents" \notin DOMAIN results[1] THEN Return(None)
    ELSE first_xml_url(results[1].documents)

Fundstelle(xml_url) == [fundstelle |-> [datum |-> "2025-05-14", xml_url |-> xml_url]]
FundstelleNoUrl == [fundstelle |-> [datum |-> "2025-05-14"]]

\* What the locator query can come back with: <<>> for a failed query (query_api
\* returned None) or an answer the code treats the same (a falsy JSON value),
\* else <<answer>>.
LocatorAnswers ==
    {<<>>,
     <<[numFound |-> 0]>>,
     <<[documents |-> <<>>]>>,
     <<[documents |-> <<FundstelleNoUrl>>]>>,
     <<[documents |-> <<Fundstelle("url1")>>]>>,
     <<[documents |-> <<FundstelleNoUrl, Fundstelle("url2"), Fundstelle("url1")>>]>>}

(***************************************************************************)
(* server.py: the resource handlers                                        *)
(***************************************************************************)

\* The context radius of plenarprotokoll_search.
Radius == 100

Max(a, b) == IF a >= b THEN a ELSE b
Min(a, b) == IF a <= b THEN a ELSE b

\* Characters with a meaning of their own in a regular expression.
RegexMeta == {"."}

\* The keyword used as a pattern without re.escape: "." matches any character.
re_no_escape(s) == [i \in 1..Len(s) |-> [ch |-> s[i], literal |-> s[i] \notin RegexMeta]]

\* re.escape(s): every character of s stands for itself.
re_escape(s) == [i \in 1..Len(s) |-> [ch |-> s[i], literal |-> TRUE]]

\* A pattern character against a content character.
TokenMatches(tok, c) == IF tok.literal THEN tok.ch = c ELSE (tok.ch = "." /\ c # "\n")

\* Whether pattern matches content at 0-based position pos.
MatchesAt(pattern, content, pos) ==
    /\ pos + Len(pattern) <= Len(content)
    /\ \A k \in 1..Len(pattern) : TokenMatches(pattern[k], content[pos + k])

\* The scan re.finditer makes for its next match: the leftmost position from
\* pos on at which pattern matches, -1 when there is none.
regex_search(pattern, content, pos) ==
    LET hits == {p \in pos..(Len(content) - Len(pattern)) :
                    MatchesAt(pattern, content, p)}
    IN IF hits = {} THEN -1 ELSE CHOOSE p \in hits : \A q \in hits : p <= q

\* re.finditer(pattern, content) from position pos on: the non-overlapping
\* matches, leftmost first, as [start, end) spans; after a match the scan
\* resumes at its end.
RECURSIVE finditer(_, _, _)
finditer(pattern, content, pos) ==
    LET start == regex_search(pattern, content, pos) IN
    IF start = -1 THEN <<>>
    ELSE <<[start |-> start, end |-> start + Len(pattern)]>>
         \o finditer(pattern, content, IF pattern = <<>> THEN start + 1
                                       ELSE start + Len(pattern))

\* `keyword_lower in content`
contains(content, keyword) ==
    \E pos \in 0..(Len(content) - Len(keyword)) :
        \A k \in 1..Len(keyword) : content[pos + k] = keyword[k]

Ellipsis == <<".", ".", ".">>

\* The f"...{context}..." strings of one speech's matches.
match_contexts(content, spans) ==
    [i \in 1..Len(spans) |->
        LET start == Max(0, spans[i].start - Radius)
            end   == Min(Len(content), spans[i].end + Radius)
        IN Ellipsis \o Slice(content, start, end) \o Ellipsis]

\* The loop of plenarprotokoll_search over the speeches.
RECURSIVE search_results(_, _)
search_results(speeches, keyword_lower) ==
    IF speeches = <<>> THEN <<>>
    ELSE LET speech  == Head(speeches)
             content == lower(dict_get(speech, "inhalt", <<>>))
             matches == match_contexts(content,
                                       finditer(re_escape(keyword_lower), content, 0))
         IN IF contains(content, keyword_lower)
            THEN <<[id          |-> dict_get(speech, "id", None),
                    redner      |-> dict_get(speech, "redner", EmptyDict),
                    matches     |-> matches,
                    match_count |-> Len(matches)]>>
                 \o search_results(Tail(speeches), keyword_lower)
            ELSE search_results(Tail(speeches), keyword_lower)

\* The list comprehension of the per-speaker and per-fraction handlers.
RECURSIVE filter_speeches(_, _, _)
filter_speeches(speeches, key, wanted) ==
    IF speeches = <<>> THEN <<>>
    ELSE IF dict_get(dict_get(Head(speeches), "redner", EmptyDict), key, None) = wanted
         THEN <<Head(speeches)>> \o filter_speeches(Tail(speeches), key, wanted)
         ELSE filter_speeches(Tail(speeches), key, wanted)

JsonMime == "application/json"

\* The record a static resource handler returns for a resource of the given type.
static_resource(resource_type, uri, name, protocol_xml) ==
    LET resource == create_resource(resource_type, protocol_xml, None) IN
    IF resource.raised # None THEN Raise(resource.raised)
    ELSE Return([uri |-> <<uri>>, name |-> <<name>>,
                 text |-> to_json(resource.value), mimeType |-> JsonMime])

protocol_metadata(protocol_xml) ==
    static_resource("metadata", "plenarprotokoll://metadata",
                    "Metadaten der letzten Bundestagssitzung", protocol_xml)

protocol_toc(protocol_xml) ==
    static_resource("toc", "plenarprotokoll://toc",
                    "Inhaltsverzeichnis der letzten Bundestagssitzung", protocol_xml)

protocol_speaker_list(protocol_xml) ==
    static_resource("speakerlist", "plenarprotokoll://speaker-list",
                    "Rednerliste der letzten Bundestagssitzung", protocol_xml)

protocol_agenda_items(protocol_xml) ==
    static_resource("agendaitem", "plenarprotokoll://agenda-items",
                    "Tagesordnungspunkte der letzten Bundestagssitzung", protocol_xml)

protocol_speeches(protocol_xml) ==
    static_resource("speech", "plenarprotokoll://speeches",
                    "Alle Reden der letzten Bundestagssitzung", protocol_xml)

protocol_attachments(protocol_xml) ==
    static_resource("attachmentlist", "plenarprotokoll://attachments",
                    "Anlagen der letzten Bundestagssitzung", protocol_xml)

\* protocol_full builds the resource and its JSON and then calls str() with
\* keyword arguments it does not take: a TypeError.
protocol_full(protocol_xml) ==
    LET resource == create_resource("fullprotocol", protocol_xml, None) IN
    IF resource.raised # None THEN Raise(resource.raised)
    ELSE Raise("TypeError")

plenarprotokoll_speech_by_id(speech_id, protocol_xml) ==
    LET resource == create_resource("speech", protocol_xml, speech_id) IN
    IF resource.raised # None THEN Raise(resource.raised)
    ELSE Return([uri |-> <<"plenarprotokoll://speech/", speech_id>>,
                 name |-> <<"Rede mit ID ", speech_id,
                            " aus der letzten Bundestagssitzung">>,
                 text |-> to_json(resource.value), mimeType |-> JsonMime])

\* The filtered_resource of the per-speaker and per-fraction handlers: a fresh
\* Speech(protocol_xml), which parses the bytes speech_resource was built from
\* once more, whose speeches are replaced by the filtered list of all speeches.
filtered_resource(root, key, wanted) ==
    [Speech_init(root, None) EXCEPT
       !.speeches = filter_speeches(Speech_init(root, None).speeches, key, wanted)]

filtered_speech_resource(protocol_xml, key, wanted) ==
    LET speech_resource == create_resource("speech", protocol_xml, None) IN
    IF speech_resource.raised # None THEN Raise(speech_resource.raised)
    ELSE Return(filtered_resource(speech_resource.value.root, key, wanted))

plenarprotokoll_speaker_speeches(speaker_id, protocol_xml) ==
    LET filtered == filtered_speech_resource(protocol_xml, "id", speaker_id) IN
    IF filtered.raised # None THEN Raise(filtered.raised)
    ELSE Return([uri |-> <<"plenarprotokoll://speaker/", speaker_id>>,
                 name |-> <<"Reden des Redners mit ID ", speaker_id,
                            " aus der letzten Bundestagssitzung">>,
                 text |-> to_json(filtered.value), mimeType |-> JsonMime])

plenarprotokoll_fraction_speeches(fraction_name, protocol_xml) ==
    LET filtered ==
            filtered_speech_resource(protocol_xml, "fraktion", fraction_name) IN
    IF filtered.raised # None THEN Raise(filtered.raised)
    ELSE Return([uri |-> <<"plenarprotokoll://fraction/", fraction_name>>,
                 name |-> <<"Reden der Fraktion ", fraction_name,
                            " aus der letzten Bundestagssitzung">>,
                 text |-> to_json(filtered.value), mimeType |-> JsonMime])

\* The dict plenarprotokoll_search serialises, on the parsed document.
search_dict(root, keyword) ==
    [suchergebnisse |-> search_results(Speech_init(root, None).speeches, lower(keyword))]

plenarprotokoll_search(keyword, protocol_xml) ==
    LET speech_resource == create_resource("speech", protocol_xml, None) IN
    IF speech_resource.raised # None THEN Raise(speech_resource.raised)
    ELSE Return([uri |-> <<"plenarprotokoll://search/", keyword>>,
                 name |-> <<"Suche nach '", keyword, "' in der letzten Bundestagssitzung">>,
                 text |-> json_dumps(search_dict(speech_resource.value.root, keyword)),
                 mimeType |-> JsonMime])

\* The resource endpoints that take no argument, and those that take one.
StaticHandlers ==
    {"protocol_metadata", "protocol_toc", "protocol_speaker_list",
     "protocol_agenda_items", "protocol_speeches", "protocol_attachments",
     "protocol_full"}

\* The requests the router delivers: <<handler, argument>>.
Requests ==
    {<<h, None>> : h \in StaticHandlers}
    \cup {<<"plenarprotokoll_speech_by_id", "ID1">>,
          <<"plenarprotokoll_speaker_speeches", "22">>,
          <<"plenarprotokoll_fraction_speeches", "SPD">>,
          <<"plenarprotokoll_search", <<"A">>>>}

\* The body of a resource handler after `protocol_xml = await get_protocol_xml()`.
handle(h, arg, protocol_xml) ==
    CASE h = "protocol_metadata"     -> protocol_metadata(protocol_xml)
      [] h = "protocol_toc"          -> protocol_toc(protocol_xml)
      [] h = "protocol_speaker_list" -> protocol_speaker_list(protocol_xml)
      [] h = "protocol_agenda_items" -> protocol_agenda_items(protocol_xml)
      [] h = "protocol_speeches"     -> protocol_speeches(protocol_xml)
      [] h = "protocol_attachments"  -> protocol_attachments(protocol_xml)
      [] h = "protocol_full"         -> protocol_full(protocol_xml)
      [] h = "plenarprotokoll_speech_by_id" ->
             plenarprotokoll_speech_by_id(arg, protocol_xml)
      [] h = "plenarprotokoll_speaker_speeches" ->
             plenarprotokoll_speaker_speeches(arg, protocol_xml)
      [] h = "plenarprotokoll_fraction_speeches" ->
             plenarprotokoll_fraction_speeches(arg, protocol_xml)
      [] h = "plenarprotokoll_search" -> plenarprotokoll_search(arg, protocol_xml)

\* get_protocol_xml() on the cache content: with a falsy cache it evaluates the
\* name get_last_bundestagsprotocol, which server.py does not define.
get_protocol_xml(cached) ==
    IF ~Truthy(cached) THEN Raise("NameError") ELSE Return(cached)

\* A whole resource request against the cache content.
resource_request(h, arg, cached) ==
    LET protocol_xml == get_protocol_xml(cached) IN
    IF protocol_xml.raised # None THEN Raise(protocol_xml.raised)
    ELSE handle(h, arg, protocol_xml.value)

(***************************************************************************)
(* The state                                                               *)
(***************************************************************************)

\* Concurrent calls of the tool get_last_bundestagsplenarprotokoll.
MaxCalls == 2
Calls == 1..MaxCalls

VARIABLES
    cached_protocol,  \* the module global: None until a fetch stores its result
    calls,            \* per tool call: pc, its local xml_url, what it returned
    fetches,          \* remote requests issued so far: locator queries, body fetches
    response,         \* the last resource request and what the router got back
    doc,              \* extractor checks: the input under test (a parsed
                      \* document, a payload or a locator answer)
    arg,              \* extractor checks: the argument of the operation
    out               \* extractor checks: the operation applied and its result

vars == <<cached_protocol, calls, fetches, response, doc, arg, out>>

serverVars == <<cached_protocol, calls, fetches, response>>
extractVars == <<doc, arg, out>>

IdleCall == [pc |-> "idle", xml_url |-> None, missed |-> FALSE, ret |-> None]
NoResponse == [handler |-> "none"]
NoOutput == [op |-> "none"]

ServerInit ==
    /\ cached_protocol = None
    /\ calls = [c \in Calls |-> IdleCall]
    /\ fetches = [locator |-> 0, body |-> 0]
    /\ response = NoResponse

Init ==
    /\ ServerInit
    /\ doc = <<>>
    /\ arg = None
    /\ out = NoOutput

(***************************************************************************)
(* Tool calls: get_last_bundestagsplenarprotokoll, one action per stretch  *)
(* between awaits.  Calls are numbered in the order they arrive.           *)
(***************************************************************************)

Arrives(c) == calls[c].pc = "idle" /\ (IF c = 1 THEN TRUE ELSE calls[c - 1].pc # "idle")

\* `if not cached_protocol` is false: the call returns the cache content.
CallHit(c) ==
    /\ Arrives(c)
    /\ Truthy(cached_protocol)
    /\ calls' = [calls EXCEPT ![c] = [@ EXCEPT !.pc = "done", !.ret = cached_protocol]]
    /\ UNCHANGED <<cached_protocol, fetches, response, extractVars>>

\* `if not cached_protocol` is true: the call issues the locator query and
\* suspends in query_api.
CallMiss(c) ==
    /\ Arrives(c)
    /\ ~Truthy(cached_protocol)
    /\ calls' = [calls EXCEPT ![c] = [@ EXCEPT !.pc = "await_locator", !.missed = TRUE]]
    /\ fetches' = [fetches EXCEPT !.locator = @ + 1]
    /\ UNCHANGED <<cached_protocol, response, extractVars>>

\* The locator query ends without a usable url: query_api(None, ...) raises
\* inside its try block before any request is sent and returns None, which the
\* call stores in the cache and returns.
LocatorNoUrl(c, answer) ==
    /\ calls[c].pc = "await_locator"
    /\ get_last_protocol_xml_url(answer) = Return(None)
    /\ cached_protocol' = None
    /\ calls' = [calls EXCEPT ![c] = [@ EXCEPT !.pc = "done", !.ret = None]]
    /\ UNCHANGED <<fetches, response, extractVars>>

\* The locator query delivers a url: the call issues the body fetch and suspends.
LocatorUrl(c, answer) ==
    /\ calls[c].pc = "await_locator"
    /\ get_last_protocol_xml_url(answer).raised = None
    /\ get_last_protocol_xml_url(answer).value # None
    /\ calls' = [calls EXCEPT ![c] = [@ EXCEPT
                    !.pc = "await_body",
                    !.xml_url = get_last_protocol_xml_url(answer).value]]
    /\ fetches' = [fetches EXCEPT !.body = @ + 1]
    /\ UNCHANGED <<cached_protocol, response, extractVars>>

\* The body fetch ends: query_api returns the body, or None when the request
\* failed; the call stores the result in the cache and returns the cache.
BodyDone(c, body) ==
    /\ calls[c].pc = "await_body"
    /\ cached_protocol' = body
    /\ calls' = [calls EXCEPT ![c] = [@ EXCEPT !.pc = "done", !.ret = body]]
    /\ UNCHANGED <<fetches, response, extractVars>>

\* A resource request: get_protocol_xml and the handler run without suspending.
ResourceRequest(h, a) ==
    /\ response' = [handler |-> h, arg |-> a, cached |-> cached_protocol,
                    fetch_issued |-> FALSE,
                    outcome |-> resource_request(h, a, cached_protocol)]
    /\ UNCHANGED <<cached_protocol, calls, fetches, extractVars>>

Next ==
    \/ \E c \in Calls : CallHit(c)
    \/ \E c \in Calls : CallMiss(c)
    \/ \E c \in Calls, answer \in LocatorAnswers : LocatorNoUrl(c, answer)
    \/ \E c \in Calls, answer \in LocatorAnswers : LocatorUrl(c, answer)
    \/ \E c \in Calls, body \in RemoteBodies \cup {None} : BodyDone(c, body)
    \/ \E r \in Requests : ResourceRequest(r[1], r[2])

Spec == Init /\ [][Next]_vars

(***************************************************************************)
(* The protocol cache: claims C1 to C4 and C10                             *)
(***************************************************************************)

\* The cache states of the specification: EMPTY is what `not cached_protocol`
\* accepts, POPULATED the rest.
Populated == Truthy(cached_protocol)

\* The last resource request found the cache EMPTY / POPULATED on arrival.
ArrivedEmpty == response.handler # "none" /\ ~Truthy(response.cached)
ArrivedPopulated == response.handler # "none" /\ Truthy(response.cached)

\* C1: single-flight population.  While no call has returned yet, every call
\* that has started is one of N concurrent first requests against the EMPTY
\* cache; together they issue one locator query and one body fetch.
C1_SingleFlight ==
    (\A c \in Calls : calls[c].pc # "done")
        => (fetches.locator <= 1 /\ fetches.body <= 1)

\* C2: a resource request that arrives while the cache is EMPTY makes the cache
\* fetch the document: it issues a remote fetch and does not fail before one.
C2_ResourceFetchesOnEmpty ==
    ArrivedEmpty => (response.fetch_issued /\ response.outcome.raised # "NameError")

\* C3: once POPULATED the cache keeps its payload: no step changes it, and no
\* call arriving then issues a remote fetch.
C3_PopulatedIsStable ==
    [][Populated =>
          /\ cached_protocol' = cached_protocol
          /\ \A c \in Calls :
                (calls[c].pc = "idle" /\ calls'[c].pc # "idle") => fetches' = fetches]_vars

\* C4: with the remote unavailable the cache stays EMPTY and the caller gets the
\* absent result, not an exception: a resource request made while the cache is
\* EMPTY, and leaving it EMPTY, raised nothing.  (The tool call's half holds by
\* LocatorNoUrl and BodyDone, which return None and never raise.)
C4_UnavailableIsAbsent ==
    (ArrivedEmpty /\ ~Populated) => response.outcome.raised = None

\* C10: on a valid cached document every resource endpoint answers with a record
\* of uri, name, text and mimeType, the last being application/json.
C10_ResponseRecord ==
    (ArrivedPopulated /\ response.cached \in DOMAIN DocTable)
        => /\ response.outcome.raised = None
           /\ DOMAIN response.outcome.value = {"uri", "name", "text", "mimeType"}
           /\ response.outcome.value.mimeType = JsonMime

(***************************************************************************)
(* Extractor checks.  Each specification draws a parsed document from a    *)
(* bounded family, applies one operation of the code to it and keeps the   *)
(* result in `out`; the server state stays as constructed.                 *)
(***************************************************************************)

\* All sequences over S of length at most n.
SeqsUpTo(S, n) == UNION {[1..k -> S] : k \in 0..n}

\* The k-th smallest element of a finite set of integers.
Kth(S, k) == CHOOSE x \in S : Cardinality({y \in S : y < x}) = k - 1

MinOf(S) == CHOOSE x \in S : \A y \in S : x <= y

ExtractInit(docs) ==
    /\ ServerInit
    /\ doc \in docs
    /\ arg = None
    /\ out = NoOutput

(***************************************************************************)
(* Speeches: Speech._extract_speeches, Speech.to_dict and the handlers     *)
(* that serve speeches (C5, C6)                                            *)
(***************************************************************************)

\* <rede> elements per document.
MaxReden == 3

\* The speaker paragraph of a <rede>: none, or one of two speakers.
RednerParas == {<<>>, <<RednerP(RednerMueller)>>, <<RednerP(RednerSchmidt)>>}

\* <rede> elements: without an id attribute or with one of two ids (so that ids
\* repeat within a document), and told apart by their speaker.
RedeVariants ==
    {Rede(id, rp \o <<TextP("J", <<"a", " ">>)>>, <<>>) :
        id \in {None, "ID1", "ID2"}, rp \in RednerParas}

SpeechDocs ==
    {Root(<<>>, reden, <<>>, <<>>, <<>>) : reden \in SeqsUpTo(RedeVariants, MaxReden)}

\* The ids the router can deliver in plenarprotokoll://speech/{speech_id}: a
\* non-empty path segment, present in the document or not.
RequestedIds == {"ID1", "ID2", "ID9"}

\* protocol_speeches: create_resource(SPEECH, xml).to_dict()
AllSpeeches ==
    /\ out.op = "none"
    /\ arg' = None
    /\ out' = [op |-> "speeches",
               speeches |-> Speech_init(doc, None).speeches,
               scanned |-> extract_speeches(doc, None).scanned,
               dict |-> to_dict(Speech_init(doc, None))]
    /\ UNCHANGED <<doc, serverVars>>

\* plenarprotokoll_speech_by_id: create_resource(SPEECH, xml, speech_id).to_dict()
SpeechById(speech_id) ==
    /\ out.op = "none"
    /\ arg' = speech_id
    /\ out' = [op |-> "speech_by_id",
               speeches |-> Speech_init(doc, speech_id).speeches,
               scanned |-> extract_speeches(doc, speech_id).scanned,
               dict |-> to_dict(Speech_init(doc, speech_id))]
    /\ UNCHANGED <<doc, serverVars>>

\* plenarprotokoll_speaker_speeches
SpeakerSpeeches(speaker_id) ==
    /\ out.op = "none"
    /\ arg' = speaker_id
    /\ out' = [op |-> "speaker",
               speeches |-> filtered_resource(doc, "id", speaker_id).speeches,
               scanned |-> extract_speeches(doc, None).scanned,
               dict |-> to_dict(filtered_resource(doc, "id", speaker_id))]
    /\ UNCHANGED <<doc, serverVars>>

\* plenarprotokoll_fraction_speeches
FractionSpeeches(fraction_name) ==
    /\ out.op = "none"
    /\ arg' = fraction_name
    /\ out' = [op |-> "fraction",
               speeches |-> filtered_resource(doc, "fraktion", fraction_name).speeches,
               scanned |-> extract_speeches(doc, None).scanned,
               dict |-> to_dict(filtered_resource(doc, "fraktion", fraction_name))]
    /\ UNCHANGED <<doc, serverVars>>

SpeechNext ==
    \/ AllSpeeches
    \/ \E speech_id \in RequestedIds : SpeechById(speech_id)
    \/ \E speaker_id \in {"11", "99"} : SpeakerSpeeches(speaker_id)
    \/ \E fraction_name \in {"SPD", "FDP"} : FractionSpeeches(fraction_name)

SpecSpeech == ExtractInit(SpeechDocs) /\ [][SpeechNext]_vars

SpeechOps == {"speeches", "speech_by_id", "speaker", "fraction"}

\* C5: the serialised speech resource is a single object under "rede" only when
\* a specific id was requested and exactly one result exists; in every other
\* case it is a sequence under "reden".
C5_SingleObjectOnlyById ==
    out.op \in SpeechOps =>
        LET single == out.op = "speech_by_id" /\ Len(out.speeches) = 1 IN
        /\ ("rede" \in DOMAIN out.dict) <=> single
        /\ ("reden" \in DOMAIN out.dict) <=> ~single

\* The positions of the <rede> elements of the document that carry id.
RedenWithId(id) == {i \in 1..Len(doc.reden) : doc.reden[i].id = id}

\* C6: extraction by a requested id yields exactly the first <rede> in document
\* order with that id and stops scanning there; with no such <rede> it yields
\* the empty sequence.
C6_SpeechById ==
    out.op = "speech_by_id" =>
        IF RedenWithId(arg) = {}
        THEN out.speeches = <<>>
        ELSE /\ out.speeches = <<speech_dict(doc.reden[MinOf(RedenWithId(arg))])>>
             /\ out.scanned = MinOf(RedenWithId(arg))

\* C6's case: the requested id occurs twice, first behind another <rede>, and
\* the two <rede> elements with it differ.
C6_Witness ==
    /\ out.op = "speech_by_id"
    /\ Cardinality(RedenWithId(arg)) >= 2
    /\ MinOf(RedenWithId(arg)) > 1
    /\ \E i \in RedenWithId(arg) : doc.reden[i] # doc.reden[MinOf(RedenWithId(arg))]

(***************************************************************************)
(* Speakers: SpeakerList._extract_speakers (C7)                            *)
(***************************************************************************)

\* <redner> elements per speaker list.
MaxRedner == 3

\* <redner> elements: without an id attribute or with one of two ids, without a
\* <name> child or with one of two names.
RednerVariants ==
    {Redner(id, name) :
        id \in {None, "11", "22"},
        name \in {<<>>, <<Name("Eva", "Mueller", "SPD")>>, <<Name("Max", None, None)>>}}

\* Documents with a speaker list and, before it, no speech or one speech.
SpeakerDocs ==
    {Root(<<>>, reden, rednerliste, <<>>, <<>>) :
        reden \in {<<>>, <<Rede("ID1", <<RednerP(RednerMueller)>>, <<>>)>>},
        rednerliste \in SeqsUpTo(RednerVariants, MaxRedner)}

\* protocol_speaker_list: create_resource(SPEAKER_LIST, xml).to_dict()
ExtractSpeakers ==
    /\ out.op = "none"
    /\ arg' = None
    /\ out' = [op |-> "speakers",
               speakers |-> SpeakerList_init(doc).speakers,
               dict |-> to_dict(SpeakerList_init(doc))]
    /\ UNCHANGED <<doc, serverVars>>

SpeakerNext == ExtractSpeakers

SpecSpeakers == ExtractInit(SpeakerDocs) /\ [][SpeakerNext]_vars

\* The positions of the <redner> elements of the document that carry id, and of
\* those among them that have a <name> child.
RednerWithId(id) ==
    {i \in 1..Len(findall_redner(doc)) : findall_redner(doc)[i].id = id}
NamedRednerWithId(id) ==
    {i \in RednerWithId(id) : findall_redner(doc)[i].name # <<>>}

\* No two entries of the speaker list have the same id.
UniqueSpeakerIds ==
    \A j, k \in 1..Len(out.speakers) :
        out.speakers[j].id = out.speakers[k].id => j = k

\* C7 as claimed: ids are unique, and the entry kept for an id is the one built
\* from the first <redner> in document order that carries that id.
C7_FirstOccurrenceWins ==
    out.op = "speakers" =>
        /\ UniqueSpeakerIds
        /\ \A k \in 1..Len(out.speakers) :
              LET first == MinOf(RednerWithId(out.speakers[k].id)) IN
              out.speakers[k].id # None =>
                  /\ findall_redner(doc)[first].name # <<>>
                  /\ out.speakers[k] = speaker_info(findall_redner(doc)[first])

\* C7 amended: ids are unique; the entry kept for an id is the one built from
\* the first <redner> in document order that carries that id and has a <name>
\* child; an id gets an entry exactly when some <redner> with it has a <name>
\* child, so elements without one contribute nothing; and the entries keep
\* document order.
C7_FirstNamedOccurrenceWins ==
    out.op = "speakers" =>
        /\ UniqueSpeakerIds
        /\ \A k \in 1..Len(out.speakers) :
              /\ NamedRednerWithId(out.speakers[k].id) # {}
              /\ out.speakers[k] =
                    speaker_info(findall_redner(doc)[
                                    MinOf(NamedRednerWithId(out.speakers[k].id))])
        /\ \A i \in 1..Len(findall_redner(doc)) :
              findall_redner(doc)[i].name # <<>>
                  => \E k \in 1..Len(out.speakers) :
                        out.speakers[k].id = findall_redner(doc)[i].id
        /\ \A j, k \in 1..Len(out.speakers) :
              j < k => MinOf(NamedRednerWithId(out.speakers[j].id))
                          < MinOf(NamedRednerWithId(out.speakers[k].id))

\* C7's case: an id carried first by a <redner> without <name>, then by two
\* with different names; the list has an entry for it.
C7_Witness ==
    /\ out.op = "speakers"
    /\ \E k \in 1..Len(out.speakers) :
          LET ids   == RednerWithId(out.speakers[k].id)
              named == NamedRednerWithId(out.speakers[k].id)
          IN /\ MinOf(ids) < MinOf(named)
             /\ \E i \in named :
                   findall_redner(doc)[i] # findall_redner(doc)[MinOf(named)]

(***************************************************************************)
(* Session metadata: _parse_metadata and to_dict of every resource class   *)
(* (C9)                                                                    *)
(***************************************************************************)

\* Roots with any subset of the ten session attributes.
MetaDocs ==
    {Root([a \in present |-> "v"], <<>>, <<>>, <<>>, <<>>) : present \in SUBSET AttrNames}

\* create_resource(resource_type, xml).to_dict()
ToDict(resource_type) ==
    /\ out.op = "none"
    /\ arg' = resource_type
    /\ out' = [op |-> "to_dict", dict |-> to_dict(construct(resource_type, doc, None))]
    /\ UNCHANGED <<doc, serverVars>>

MetaNext == \E resource_type \in ResourceType : ToDict(resource_type)

SpecMeta == ExtractInit(MetaDocs) /\ [][MetaNext]_vars

\* The root attribute behind each metadata field of an entity.
AttrOfField ==
    [wahlperiode            |-> "wahlperiode",
     sitzung_nr             |-> "sitzung-nr",
     sitzung_datum          |-> "sitzung-datum",
     sitzung_ort            |-> "sitzung-ort",
     sitzung_start          |-> "sitzung-start-uhrzeit",
     sitzung_ende           |-> "sitzung-ende-uhrzeit",
     herausgeber            |-> "herausgeber",
     issn                   |-> "issn",
     sitzung_naechste_datum |-> "sitzung-naechste-datum",
     start_seitennr         |-> "start-seitennr"]

\* C9: a session attribute absent from the root yields the empty string for its
\* field, in every entity that has the field.
C9_AbsentAttributeIsEmptyString ==
    out.op = "to_dict" =>
        \A f \in DOMAIN AttrOfField \cap DOMAIN out.dict :
            AttrOfField[f] \notin DOMAIN doc.attrib => out.dict[f] = ""

(***************************************************************************)
(* Session metadata across the resource kinds and in FullProtocol.to_dict  *)
(* (C11, C12)                                                              *)
(***************************************************************************)

\* The value of each session attribute in the documents below.
SessionValue ==
    [a \in AttrNames |->
        CASE a = "wahlperiode"            -> "20"
          [] a = "sitzung-nr"             -> "5"
          [] a = "sitzung-datum"          -> "14.05.2025"
          [] a = "sitzung-ort"            -> "Berlin"
          [] a = "sitzung-start-uhrzeit"  -> "9:00"
          [] a = "sitzung-ende-uhrzeit"   -> "17:30"
          [] a = "herausgeber"            -> "Bundestag & Bundesrat"
          [] a = "issn"                   -> "0722 &amp; 7980"
          [] a = "sitzung-naechste-datum" -> "15.05.2025"
          [] a = "start-seitennr"         -> "101"]

\* Documents with any subset of the session attributes, each with a value of
\* its own, on a root with speeches, agenda, speaker list and table of contents
\* or on a root with a single speech.
ComposeDocs ==
    {Root([a \in present |-> SessionValue[a]],
          content.reden, content.rednerliste, content.tops, content.inhaltsverzeichnis) :
        present \in SUBSET AttrNames, content \in {DocA, DocB}}

SpecCompose == ExtractInit(ComposeDocs) /\ [][MetaNext]_vars

\* The output of the Metadata extractor run alone on the document.
MetadataAlone == SessionMetadata_to_dict(SessionMetadata_init(doc))

\* C11: the FullProtocol output has every key of the Metadata extractor's
\* output, and on every key the two outputs share the values are equal: no
\* later extractor has overwritten a metadata field.
C11_FullKeepsMetadata ==
    (out.op = "to_dict" /\ arg = "fullprotocol") =>
        /\ DOMAIN MetadataAlone \subseteq DOMAIN out.dict
        /\ \A k \in DOMAIN out.dict \cap DOMAIN MetadataAlone :
              out.dict[k] = MetadataAlone[k]

\* C11's case: a full protocol composed from a document with speeches, agenda
\* items and a table of contents, whose publisher attribute needs escaping in
\* the serialised tree the inner extractors parse.
C11_Witness ==
    /\ out.op = "to_dict"
    /\ arg = "fullprotocol"
    /\ DOMAIN doc.attrib = AttrNames
    /\ out.dict.herausgeber = "Bundestag & Bundesrat"
    /\ out.dict.issn = "0722 &amp; 7980"
    /\ out.dict.redner # <<>>
    /\ out.dict.tagesordnungspunkte # <<>>
    /\ out.dict.inhaltsverzeichnis.bloecke # <<>>

\* The metadata fields: those of BundestagResource.to_dict, and all of them.
BaseFields ==
    {"wahlperiode", "sitzung_nr", "sitzung_datum", "sitzung_ort", "sitzung_start",
     "sitzung_ende"}
MetaFields == DOMAIN AttrOfField

\* The metadata sub-fields of the entity produced.
MetadataOf(d) == [k \in DOMAIN d \cap MetaFields |-> d[k]]

\* C12 as claimed: for every resource kind other than Metadata the metadata
\* sub-fields of the entity are identical to the Metadata extractor's output.
C12_MetadataIdentical ==
    (out.op = "to_dict" /\ arg # "metadata") => MetadataOf(out.dict) = MetadataAlone

\* C12 amended: every entity has the six fields of the base class, FullProtocol
\* has all ten and the other five kinds have only the six, and each metadata
\* field an entity has equals the same field of the Metadata extractor's output.
C12_SharedMetadataIdentical ==
    (out.op = "to_dict" /\ arg # "metadata") =>
        /\ DOMAIN MetadataOf(out.dict)
              = IF arg = "fullprotocol" THEN MetaFields ELSE BaseFields
        /\ \A k \in DOMAIN MetadataOf(out.dict) : out.dict[k] = MetadataAlone[k]

\* C12's case: a table of contents extracted from a document with every
\* session attribute; it carries the six base fields next to its own.
C12_Witness ==
    /\ out.op = "to_dict"
    /\ arg = "toc"
    /\ DOMAIN doc.attrib = AttrNames
    /\ out.dict.bloecke # <<>>
    /\ out.dict.wahlperiode = "20"
    /\ out.dict.sitzung_ende = "17:30"
    /\ "issn" \notin DOMAIN out.dict

(***************************************************************************)
(* Keyword search: plenarprotokoll_search (C8)                             *)
(***************************************************************************)

\* Length of the varying part of a speech's text, and of a keyword.
MaxCore == 3
MaxKeyword == 2

\* Letters in both cases and a character that is special in a pattern.
SearchAlphabet == {"a", "A", "."}

\* n characters that no keyword contains.
Pad(n) == [i \in 1..n |-> "x"]

\* Padding before and after the varying part: none, exactly the context radius,
\* and one more than it.
PadPairs ==
    {<<0, 0>>, <<Radius, Radius>>, <<Radius + 1, Radius + 1>>,
     <<0, Radius + 1>>, <<Radius + 1, 0>>}

\* Two speeches: one whose text is a padded word over the alphabet, and one with
\* two paragraphs of fixed text.
SearchDocs ==
    {Root(<<>>,
          <<Rede("ID1", <<RednerP(RednerMueller),
                          TextP("J", Pad(pp[1]) \o core \o Pad(pp[2]))>>, <<>>),
            Rede("ID2", <<TextP("J", <<"A">>), TextP("O", <<".", "a">>)>>, <<>>)>>,
          <<>>, <<>>, <<>>) :
        pp \in PadPairs, core \in SeqsUpTo(SearchAlphabet, MaxCore)}

\* The keywords the router can deliver in plenarprotokoll://search/{keyword}:
\* non-empty path segments.
Keywords == SeqsUpTo(SearchAlphabet, MaxKeyword) \ {<<>>}

\* plenarprotokoll_search: the dict behind the response text.
Search(keyword) ==
    /\ out.op = "none"
    /\ arg' = keyword
    /\ out' = [op |-> "search", dict |-> search_dict(doc, keyword)]
    /\ UNCHANGED <<doc, serverVars>>

SearchNext == \E keyword \in Keywords : Search(keyword)

SpecSearch == ExtractInit(SearchDocs) /\ [][SearchNext]_vars

\* The speeches searched.
SearchedSpeeches == Speech_init(doc, None).speeches

\* The 0-based positions at which keyword kw occurs literally in content.
Occurrences(content, kw) ==
    {p \in 0..(Len(content) - Len(kw)) : \A k \in 1..Len(kw) : content[p + k] = kw[k]}

\* Of the occurrences occ of a keyword of length n, the non-overlapping ones
\* taken left to right: an occurrence is taken exactly when it does not overlap
\* a taken occurrence before it.
TakenOccurrences(occ, n) ==
    CHOOSE G \in SUBSET occ :
        \A p \in occ : p \in G <=> (\A q \in G : q < p => q + n <= p)

\* The context window of a match of length n at p in content.
Window(content, p, n) ==
    Slice(content, Max(0, p - Radius), Min(Len(content), p + n + Radius))

\* What the search must return for one speech with the lower-cased keyword kw:
\* no record if kw does not occur in the lower-cased content, else one record.
ExpectedResult(speech, kw) ==
    LET content == lower(speech.inhalt) \o <<>>
        G       == TakenOccurrences(Occurrences(content, kw), Len(kw))
    IN IF G = {} THEN <<>>
       ELSE <<[id          |-> speech.id,
               redner      |-> speech.redner,
               matches     |-> [i \in 1..Cardinality(G) |->
                                  Ellipsis \o Window(content, Kth(G, i), Len(kw))
                                           \o Ellipsis],
               match_count |-> Cardinality(G)]>>

\* C8: the search returns, for each speech whose lower-cased content contains
\* the lower-cased keyword, in document order, one context window per
\* non-overlapping occurrence from left to right, each the slice of the
\* lower-cased content from max(0, start - 100) to min(len, end + 100), placed
\* between "..." and "...".  The result is a function of the document and the
\* lower-cased keyword alone, so keywords that differ only in letter case give
\* the same result.
C8_Search ==
    out.op = "search" =>
        out.dict.suchergebnisse
            = ExpectedResult(SearchedSpeeches[1], lower(arg))
                 \o ExpectedResult(SearchedSpeeches[2], lower(arg))

\* The occurrences of the keyword in the first speech, and those taken.
FirstOccurrences ==
    Occurrences(lower(SearchedSpeeches[1].inhalt) \o <<>>, lower(arg))
FirstTaken == TakenOccurrences(FirstOccurrences, Len(arg))

\* C8's case: a keyword with an upper-case letter that occurs in the first
\* speech at overlapping positions, far enough from both ends of the content
\* that the window is clamped at neither.
C8_Witness ==
    /\ out.op = "search"
    /\ arg # lower(arg)
    /\ FirstTaken # FirstOccurrences
    /\ \E p \in FirstTaken :
          /\ p - Radius > 0
          /\ p + Len(arg) + Radius < Len(SearchedSpeeches[1].inhalt)
    /\ Len(out.dict.suchergebnisse) >= 1
    /\ out.dict.suchergebnisse[1].match_count = Cardinality(FirstTaken)


(***************************************************************************)
(* The resource factory: create_resource (C13)                             *)
(***************************************************************************)

\* Tags outside the enumeration: a value of another type, the plain string of
\* a member's value (which is not equal to the member), and None.
OtherTags == {"summary", "str:metadata", None}

\* create_resource(resource_type, xml_data, speech_id=speech_id) on the payload
\* under test.
Create(resource_type, speech_id) ==
    /\ out.op = "none"
    /\ arg' = <<resource_type, speech_id>>
    /\ out' = [op |-> "create", result |-> create_resource(resource_type, doc, speech_id)]
    /\ UNCHANGED <<doc, serverVars>>

FactoryNext ==
    \E resource_type \in ResourceType \cup OtherTags, speech_id \in {None} \cup RequestedIds :
        Create(resource_type, speech_id)

SpecFactory == ExtractInit(RemoteBodies) /\ [][FactoryNext]_vars

\* The class create_resource instantiates for each member of the enumeration.
KindOf ==
    [t \in ResourceType |->
        CASE t = "metadata"       -> "SessionMetadata"
          [] t = "agendaitem"     -> "AgendaItem"
          [] t = "speakerlist"    -> "SpeakerList"
          [] t = "speech"         -> "Speech"
          [] t = "attachmentlist" -> "AttachmentList"
          [] t = "toc"            -> "TableOfContents"
          [] t = "fullprotocol"   -> "FullProtocol"]

\* C13: for every member of the enumeration create_resource returns, on a
\* payload that parses, an entity of the matching class built on the parsed
\* root; for every other tag it raises ValueError, whatever the payload.
C13_FactoryExhaustiveAndClosed ==
    out.op = "create" =>
        /\ (arg[1] \in ResourceType /\ doc \in DOMAIN DocTable) =>
              /\ out.result.raised = None
              /\ out.result.value.cls = KindOf[arg[1]]
              /\ out.result.value.root = DocTable[doc]
        /\ arg[1] \notin ResourceType => out.result = Raise("ValueError")

\* C13's case: a tag outside the enumeration on a payload that parses, refused
\* with ValueError.
C13_Witness ==
    /\ out.op = "create"
    /\ arg[1] = "str:metadata"
    /\ doc \in DOMAIN DocTable
    /\ out.result.raised = "ValueError"

(***************************************************************************)
(* Malformed payloads (C14)                                                *)
(***************************************************************************)

\* The cache holds a payload that is not well-formed XML.
CachedMalformed == Truthy(cached_protocol) /\ cached_protocol \notin DOMAIN DocTable

\* C14: a resource request served from a payload that is not well-formed XML
\* ends in the parser's error, with no record returned, for every endpoint and
\* so for each of the seven resource kinds; and it leaves the cache as it was.
\* (A step that leaves every tool call where it was is a resource request.)
C14_MalformedFails ==
    [][(CachedMalformed /\ calls' = calls)
          => /\ response'.cached = cached_protocol
             /\ response'.outcome.raised = "ParseError"
             /\ cached_protocol' = cached_protocol]_vars

\* C14's case: the full-protocol endpoint was asked while the cache held the
\* malformed payload, failed with the parser's error, and the cache holds the
\* payload still.
C14_Witness ==
    /\ response.handler = "protocol_full"
    /\ response.cached = Malformed
    /\ response.outcome.raised = "ParseError"
    /\ cached_protocol = Malformed


(***************************************************************************)
(* The document locator: get_last_protocol_xml_url (C15)                   *)
(***************************************************************************)

\* Records per locator answer.
MaxRecords == 4

\* The records of the locator's answers: each has its `fundstelle` with a date,
\* and in it an xml_url or none.
RecordVariants == {FundstelleNoUrl, Fundstelle("url1"), Fundstelle("url2")}

\* What query_api gives get_last_protocol_xml_url: nothing (the query failed),
\* an answer without a document list, or a list of up to MaxRecords records.
LocatorResults ==
    {<<>>, <<[numFound |-> 0]>>}
    \cup {<<[documents |-> documents]>> : documents \in SeqsUpTo(RecordVariants, MaxRecords)}

\* get_last_protocol_xml_url() with the locator's answer under test.
Locate ==
    /\ out.op = "none"
    /\ arg' = None
    /\ out' = [op |-> "locate", result |-> get_last_protocol_xml_url(doc)]
    /\ UNCHANGED <<doc, serverVars>>

LocatorNext == Locate

SpecLocator == ExtractInit(LocatorResults) /\ [][LocatorNext]_vars

\* The records of the answer under test in return order (none when the query
\* failed or the answer has no list), and the positions of those with a
\* location reference.
Records ==
    IF doc = <<>> THEN <<>>
    ELSE IF "documents" \in DOMAIN doc[1] THEN doc[1].documents
    ELSE <<>>
RecordsWithUrl == {i \in 1..Len(Records) : "xml_url" \in DOMAIN Records[i].fundstelle}

\* C15: get_last_protocol_xml_url returns the xml_url of the first record in
\* return order that has one, without failing on the records before it that
\* have none, and returns None when the query failed or no record has one.
C15_FirstLocationReference ==
    out.op = "locate" =>
        /\ out.result.raised = None
        /\ out.result.value =
              IF RecordsWithUrl = {} THEN None
              ELSE Records[MinOf(RecordsWithUrl)].fundstelle.xml_url

\* C15's case: the first record has no reference, and two later ones have
\* different references.
C15_Witness ==
    /\ out.op = "locate"
    /\ RecordsWithUrl # {}
    /\ MinOf(RecordsWithUrl) > 1
    /\ \E i \in RecordsWithUrl :
          Records[i].fundstelle.xml_url # Records[MinOf(RecordsWithUrl)].fundstelle.xml_url
    /\ out.result.value = Records[MinOf(RecordsWithUrl)].fundstelle.xml_url

================================================================================
